---- MODULE Spec2Model ----
(***************************************************************************)
(* Model of brainstorm_agent.py: the BrainstormingContext record, the four *)
(* function tools, dynamic_instructions, and the interactive loop of       *)
(* interactive_brainstorming_session / main.                               *)
(*                                                                         *)
(* Text is modelled as a sequence of fragments.  A fragment is either one  *)
(* character of a user- or model-supplied string, or one literal piece of  *)
(* a format string of the source.  String formatting is concatenation.     *)
(* User- and model-supplied strings are single-line texts over the         *)
(* alphabet of the input sets below.                                       *)
(***************************************************************************)
EXTENDS Integers, Sequences, FiniteSets, TLC

VARIABLES
    context,        \* the BrainstormingContext of the session
    pc,             \* position of the loop: "input", "running", "done"
    user_input,     \* local user_input of the loop (last line read)
    printed,        \* the text most recently printed
    ret,            \* value most recently returned by a tool or by dynamic_instructions
    op,             \* name of the operation performed by the last step
    stuck_level,    \* argument of the last suggest_brainstorming_technique call
    topic_arg,      \* history variable: argument of the last set_brainstorming_topic call
    messages_log,   \* history variable: (role, content) of every add_message call
    ideas_log,      \* history variable: argument of every save_idea call
    turn_start,     \* history variable: context when the current turn's input was read
    turns,          \* history variable: number of completed turns
    runs,           \* history variable: number of Runner.run invocations
    exit_cause      \* history variable: why the session ended

vars == <<context, pc, user_input, printed, ret, op, stuck_level, topic_arg,
          messages_log, ideas_log, turn_start, turns, runs, exit_cause>>

(***************************************************************************)
(* Bounds of the model.                                                    *)
(***************************************************************************)
MaxTurns == 2
MaxIdeas == 2

(***************************************************************************)
(* Optional[str]: None is the empty tuple, a value v is <<v>>.             *)
(***************************************************************************)
None == <<>>
Some(v) == <<v>>

(***************************************************************************)
(* Literal fragments of the source's format strings.                       *)
(***************************************************************************)
NL == "\n"
ROLE_USER == "user"
ROLE_ASSISTANT_as_user == "user"
ROLE_ASSISTANT == "assistant"
NO_IDEAS_MESSAGE == "We haven't recorded any specific ideas yet. Let's continue brainstorming!"
SUMMARY_PREFIX == "Here's a summary of the "
SUMMARY_SUFFIX == " ideas we've discussed so far:"
BULLET == "- "
SAVED_PREFIX == "I've saved the idea: '"
QUOTE == "'"
TOPIC_SET_PREFIX == "I've set our brainstorming topic to: '"
FOR_YOUR_TOPIC == "For your topic '"
YOU_MIGHT_TRY == "', you might try: "
DEFAULT_TOPIC_PHRASE == "your current topic"
BASE_INSTRUCTIONS == "You are a helpful brainstorming assistant ... Asking closed-ended (yes/no) questions"
TOPIC_HEADER == "CURRENT BRAINSTORMING TOPIC: "
IDEAS_HEADER == "IDEAS DISCUSSED SO FAR:"
FAREWELL == "Thank you for brainstorming with me! Goodbye!"
INTERRUPT_FAREWELL == "Session terminated by user. Goodbye!"
ERROR_PREFIX == "An error occurred: "
ASSISTANT_PREFIX == "Brainstorming Assistant: "
GREETING == "Let's start brainstorming! What topic would you like to explore today?"

(***************************************************************************)
(* Input sets.                                                             *)
(***************************************************************************)
\* lines typed by the operator
UserInputs ==
    { <<"e","x","i","t">>, <<"E","X","I","T">>, <<"E","x","i","t">>,
      <<"q","u","i","t">>, <<"Q","u","I","t">>,
      <<"e","x","i">>, <<>> }
\* final outputs of the agent
FinalOutputs == { <<"b">> }
\* idea arguments supplied by the model
IdeaArgs == { <<>>, <<"a">> }
\* topic arguments supplied by the model
TopicArgs == { <<>>, <<"a">>, <<"b">> }
\* stuck_level arguments supplied by the model
StuckLevels == { -1, 0, 1, 2, 3, 4, 5, 6, 1000000 }
\* descriptions of failures raised by the runtime
ErrorDescriptions == { <<"a">>, <<>> }
EOF_DESCRIPTION == "EOF when reading a line"

(***************************************************************************)
(* Helpers: str.join, str(int), str.lower.                                 *)
(***************************************************************************)
RECURSIVE join(_, _)
join(sep, parts) ==
    IF parts = <<>> THEN <<>>
    ELSE IF Len(parts) = 1 THEN parts[1]
    ELSE parts[1] \o sep \o join(sep, Tail(parts))

Digits == <<"0","1","2","3","4","5","6","7","8","9">>

RECURSIVE str_of_nat(_)
str_of_nat(n) ==
    IF n < 10 THEN <<Digits[n + 1]>>
    ELSE str_of_nat(n \div 10) \o <<Digits[(n % 10) + 1]>>

lower_char(c) ==
    CASE c = "E" -> "e" [] c = "X" -> "x" [] c = "I" -> "i" [] c = "T" -> "t"
      [] c = "Q" -> "q" [] c = "U" -> "u" [] c = "A" -> "a" [] c = "B" -> "b"
      [] OTHER -> c

lower(s) == [i \in 1..Len(s) |-> lower_char(s[i])]

\* Python truthiness of an Optional[str]: None and "" are false
truthy(opt) == opt /= None /\ opt[1] /= <<>>

(***************************************************************************)
(* BrainstormingContext                                                    *)
(***************************************************************************)
BrainstormingContext ==
    [conversation_history |-> <<>>, topic |-> None, ideas_discussed |-> <<>>]

add_message_prepend(ctx, role, content) ==
    [ctx EXCEPT !.conversation_history =
        <<[role |-> role, content |-> content]>> \o @]

add_message(ctx, role, content) ==
    [ctx EXCEPT !.conversation_history =
        Append(@, [role |-> role, content |-> content])]

add_idea_dedup(ctx, idea) ==
    IF \E i \in 1..Len(ctx.ideas_discussed) : ctx.ideas_discussed[i] = idea
    THEN ctx
    ELSE [ctx EXCEPT !.ideas_discussed = Append(@, idea)]

add_idea(ctx, idea) ==
    [ctx EXCEPT !.ideas_discussed = Append(@, idea)]

(***************************************************************************)
(* Tools.  Each has a return value and a resulting context.                *)
(***************************************************************************)
summarize_ideas(ctx) ==
    IF ctx.ideas_discussed = <<>>
    THEN <<NO_IDEAS_MESSAGE>>
    ELSE <<SUMMARY_PREFIX>> \o str_of_nat(Len(ctx.ideas_discussed))
            \o <<SUMMARY_SUFFIX, NL>>
            \o join(<<NL>>, [i \in 1..Len(ctx.ideas_discussed) |->
                                <<BULLET>> \o ctx.ideas_discussed[i]])

save_idea_context_sets_topic(ctx, idea) ==
    [add_idea(ctx, idea) EXCEPT !.topic = IF @ = None THEN Some(idea) ELSE @]

save_idea_context(ctx, idea) == add_idea(ctx, idea)

save_idea(ctx, idea) == <<SAVED_PREFIX>> \o idea \o <<QUOTE>>

techniques ==
    [k \in 1..5 |->
        CASE k = 1 -> "Mind Mapping: Start with your central idea and branch out with related concepts."
          [] k = 2 -> "SCAMPER: Consider how you can Substitute, Combine, Adapt, Modify, Put to other use, Eliminate, or Reverse aspects of your idea."
          [] k = 3 -> "Six Thinking Hats: Look at the problem from different perspectives (facts, emotions, caution, benefits, creativity, process)."
          [] k = 4 -> "Random Word Association: Pick a random word and force connections between it and your problem."
          [] k = 5 -> "Reverse Brainstorming: Instead of solving the problem, think about how to cause it or make it worse, then reverse your solutions."]

\* dict.get(key, default)
techniques_get(k, default) ==
    IF k \in DOMAIN techniques THEN techniques[k] ELSE default

\* wrapper.context.topic or "your current topic"
current_topic(ctx) ==
    IF truthy(ctx.topic) THEN ctx.topic[1] ELSE <<DEFAULT_TOPIC_PHRASE>>

suggest_brainstorming_technique_clamped(ctx, level) ==
    <<FOR_YOUR_TOPIC>> \o current_topic(ctx) \o <<YOU_MIGHT_TRY>>
        \o <<techniques[IF level < 1 THEN 1 ELSE IF level > 5 THEN 5 ELSE level]>>

suggest_brainstorming_technique(ctx, level) ==
    <<FOR_YOUR_TOPIC>> \o current_topic(ctx) \o <<YOU_MIGHT_TRY>>
        \o <<techniques_get(level, techniques[3])>>

set_brainstorming_topic_context(ctx, topic) ==
    [ctx EXCEPT !.topic = Some(topic)]

set_brainstorming_topic(ctx, topic) ==
    <<TOPIC_SET_PREFIX>> \o topic \o <<QUOTE>>

(***************************************************************************)
(* dynamic_instructions                                                    *)
(***************************************************************************)
topic_block(topic) == <<NL, NL, TOPIC_HEADER>> \o topic

ideas_block(ideas) ==
    <<NL, NL, IDEAS_HEADER, NL>>
        \o join(<<NL>>, [i \in 1..Len(ideas) |-> <<BULLET>> \o ideas[i]])

dynamic_instructions(ctx) ==
    LET base == <<BASE_INSTRUCTIONS>>
        with_topic ==
            IF truthy(ctx.topic) THEN base \o topic_block(ctx.topic[1]) ELSE base
    IN  IF ctx.ideas_discussed /= <<>>
        THEN with_topic \o ideas_block(ctx.ideas_discussed)
        ELSE with_topic

(***************************************************************************)
(* interactive_brainstorming_session and main                              *)
(***************************************************************************)
is_exit_case_sensitive(line) == line \in { <<"e","x","i","t">>, <<"q","u","i","t">> }

is_exit(line) == lower(line) \in { <<"e","x","i","t">>, <<"q","u","i","t">> }

Init ==
    /\ context = BrainstormingContext
    /\ pc = "input"
    /\ user_input = <<>>
    /\ printed = <<GREETING, NL>>
    /\ ret = <<>>
    /\ op = "start"
    /\ stuck_level = 0
    /\ topic_arg = None
    /\ messages_log = <<>>
    /\ ideas_log = <<>>
    /\ turn_start = BrainstormingContext
    /\ turns = 0
    /\ runs = 0
    /\ exit_cause = "none"

\* input() returns a line: the sentinel ends the session, any other line
\* is added to the history and Runner.run is entered
ReadInput ==
    /\ pc = "input"
    /\ \E line \in UserInputs :
        /\ user_input' = line
        /\ IF is_exit(line)
           THEN /\ printed' = <<NL, FAREWELL>>
                /\ pc' = "done"
                /\ exit_cause' = "sentinel"
                /\ op' = "exit"
                /\ UNCHANGED <<context, messages_log, turn_start, runs>>
           ELSE /\ turns < MaxTurns
                /\ context' = add_message(context, ROLE_USER, line)
                /\ messages_log' = Append(messages_log, <<ROLE_USER, line>>)
                /\ turn_start' = context
                /\ pc' = "running"
                /\ runs' = runs + 1
                /\ op' = "add_message"
                /\ UNCHANGED <<printed, exit_cause>>
    /\ UNCHANGED <<ret, stuck_level, topic_arg, ideas_log, turns>>

\* input() raises EOFError, caught by main's except Exception
InputFails ==
    /\ pc = "input"
    /\ pc' = "done"
    /\ printed' = <<NL, NL, ERROR_PREFIX, EOF_DESCRIPTION>>
    /\ exit_cause' = "input_error"
    /\ op' = "raise"
    /\ UNCHANGED <<context, user_input, ret, stuck_level, topic_arg, messages_log,
                   ideas_log, turn_start, turns, runs>>

\* the runtime asks for the instructions
CallDynamicInstructions ==
    /\ pc = "running"
    /\ ret' = dynamic_instructions(context)
    /\ op' = "dynamic_instructions"
    /\ UNCHANGED <<context, pc, user_input, printed, stuck_level, topic_arg,
                   messages_log, ideas_log, turn_start, turns, runs, exit_cause>>

CallSummarizeIdeas ==
    /\ pc = "running"
    /\ ret' = summarize_ideas(context)
    /\ op' = "summarize_ideas"
    /\ UNCHANGED <<context, pc, user_input, printed, stuck_level, topic_arg,
                   messages_log, ideas_log, turn_start, turns, runs, exit_cause>>

CallSaveIdea ==
    /\ pc = "running"
    /\ Len(ideas_log) < MaxIdeas
    /\ \E idea \in IdeaArgs :
        /\ context' = save_idea_context(context, idea)
        /\ ret' = save_idea(context, idea)
        /\ ideas_log' = Append(ideas_log, idea)
    /\ op' = "save_idea"
    /\ UNCHANGED <<pc, user_input, printed, stuck_level, topic_arg, messages_log,
                   turn_start, turns, runs, exit_cause>>

CallSuggestTechnique ==
    /\ pc = "running"
    /\ \E level \in StuckLevels :
        /\ ret' = suggest_brainstorming_technique(context, level)
        /\ stuck_level' = level
    /\ op' = "suggest_brainstorming_technique"
    /\ UNCHANGED <<context, pc, user_input, printed, topic_arg, messages_log,
                   ideas_log, turn_start, turns, runs, exit_cause>>

CallSetTopic ==
    /\ pc = "running"
    /\ \E topic \in TopicArgs :
        /\ context' = set_brainstorming_topic_context(context, topic)
        /\ ret' = set_brainstorming_topic(context, topic)
        /\ topic_arg' = Some(topic)
    /\ op' = "set_brainstorming_topic"
    /\ UNCHANGED <<pc, user_input, printed, stuck_level, messages_log, ideas_log,
                   turn_start, turns, runs, exit_cause>>

\* Runner.run returns: the output is printed and added to the history
RunnerReturns ==
    /\ pc = "running"
    /\ \E final_output \in FinalOutputs :
        /\ printed' = <<NL, ASSISTANT_PREFIX>> \o final_output
        /\ context' = add_message(context, ROLE_ASSISTANT, final_output)
        /\ messages_log' = Append(messages_log, <<ROLE_ASSISTANT, final_output>>)
    /\ pc' = "input"
    /\ turns' = turns + 1
    /\ op' = "add_message"
    \* the values local to the finished run are gone; the next turn starts here
    /\ ret' = <<>>
    /\ stuck_level' = 0
    /\ turn_start' = context'
    /\ UNCHANGED <<user_input, topic_arg, ideas_log, runs, exit_cause>>

RunnerRaises_rollback ==
    /\ pc = "running"
    /\ \E e \in ErrorDescriptions :
        printed' = <<NL, NL, ERROR_PREFIX>> \o e
    /\ pc' = "done"
    /\ exit_cause' = "runtime_error"
    /\ op' = "raise"
    /\ context' = turn_start
    /\ UNCHANGED <<user_input, ret, stuck_level, topic_arg, messages_log,
                   ideas_log, turn_start, turns, runs>>

\* Runner.run raises: main's except Exception prints the description
RunnerRaises ==
    /\ pc = "running"
    /\ \E e \in ErrorDescriptions :
        printed' = <<NL, NL, ERROR_PREFIX>> \o e
    /\ pc' = "done"
    /\ exit_cause' = "runtime_error"
    /\ op' = "raise"
    /\ UNCHANGED <<context, user_input, ret, stuck_level, topic_arg, messages_log,
                   ideas_log, turn_start, turns, runs>>

\* KeyboardInterrupt while waiting for input or inside Runner.run
Interrupt ==
    /\ pc \in {"input", "running"}
    /\ pc' = "done"
    /\ printed' = <<NL, NL, INTERRUPT_FAREWELL>>
    /\ exit_cause' = "interrupt"
    /\ op' = "interrupt"
    /\ UNCHANGED <<context, user_input, ret, stuck_level, topic_arg, messages_log,
                   ideas_log, turn_start, turns, runs>>

Next ==
    \/ ReadInput
    \/ InputFails
    \/ CallDynamicInstructions
    \/ CallSummarizeIdeas
    \/ CallSaveIdea
    \/ CallSuggestTechnique
    \/ CallSetTopic
    \/ RunnerReturns
    \/ RunnerRaises
    \/ Interrupt

Spec == Init /\ [][Next]_vars

(***************************************************************************)
(* Operators used to read texts back.                                      *)
(***************************************************************************)
IsPrefix(s, t) == Len(s) <= Len(t) /\ SubSeq(t, 1, Len(s)) = s

\* the lines of a text: the fragments between NL fragments
RECURSIVE split_lines(_)
split_lines(text) ==
    IF \A i \in 1..Len(text) : text[i] /= NL
    THEN <<text>>
    ELSE LET i == CHOOSE j \in 1..Len(text) :
                    text[j] = NL /\ \A k \in 1..(j - 1) : text[k] /= NL
         IN  <<SubSeq(text, 1, i - 1)>> \o split_lines(SubSeq(text, i + 1, Len(text)))

digit_value(d) == CHOOSE v \in 0..9 : Digits[v + 1] = d

RECURSIVE parse_nat(_)
parse_nat(ds) ==
    IF Len(ds) = 1 THEN digit_value(ds[1])
    ELSE 10 * parse_nat(SubSeq(ds, 1, Len(ds) - 1)) + digit_value(ds[Len(ds)])

history == context.conversation_history
ideas == context.ideas_discussed

(***************************************************************************)
(* C5: history is append-only: it is exactly the (role, content) arguments *)
(* of the add_message calls made so far, in call order, and every step     *)
(* keeps the earlier entries in place.                                     *)
(***************************************************************************)
C5_HistoryIsCallLog ==
    /\ [](/\ Len(history) = Len(messages_log)
          /\ \A i \in 1..Len(history) :
                /\ history[i].role = messages_log[i][1]
                /\ history[i].content = messages_log[i][2])
    /\ [][IsPrefix(history, history')]_vars

C5_Witness ==
    /\ Len(history) = 4
    /\ ideas /= <<>>
    /\ context.topic /= None
    /\ op = "add_message"

(***************************************************************************)
(* C6: every completed turn adds exactly two entries, the user's input     *)
(* with role user and then the agent's output with role assistant: after   *)
(* k completed turns the history has length 2k and alternates user,        *)
(* assistant.                                                              *)
(***************************************************************************)
C6_TwoEntriesPerTurn ==
    /\ pc = "input" => Len(history) = 2 * turns
    /\ pc = "running" =>
          /\ Len(history) = 2 * turns + 1
          /\ history[Len(history)] = [role |-> "user", content |-> user_input]
    /\ pc = "done" => Len(history) \in {2 * turns, 2 * turns + 1}
    /\ \A i \in 1..Len(history) :
          history[i].role = IF i % 2 = 1 THEN "user" ELSE "assistant"
    /\ \A i \in 1..Len(history) :
          history[i].content \in (IF i % 2 = 1 THEN UserInputs ELSE FinalOutputs)

C6_Witness == turns = 2 /\ pc = "input" /\ Len(history) = 4

(***************************************************************************)
(* C7: the session ends in exactly one of three ways, each with its own    *)
(* message: an exit/quit line in any letter case ends it with the farewell *)
(* without entering Runner.run or changing the context; an interrupt ends  *)
(* it with the interrupt farewell; any other failure ends it with the      *)
(* failure's description.  Once ended, nothing more happens.               *)
(***************************************************************************)
\* exit or quit spelled in any mix of upper and lower case
Sentinel(line) ==
    /\ Len(line) = 4
    /\ \/ \A i \in 1..4 : line[i] \in {<<"e","x","i","t">>[i], <<"E","X","I","T">>[i]}
       \/ \A i \in 1..4 : line[i] \in {<<"q","u","i","t">>[i], <<"Q","U","I","T">>[i]}

C7_ThreeFinalEndings ==
    /\ [](pc = "done" =>
            \/ /\ exit_cause = "sentinel"
               /\ Sentinel(user_input)
               /\ printed = <<NL, FAREWELL>>
            \/ /\ exit_cause = "interrupt"
               /\ printed = <<NL, NL, INTERRUPT_FAREWELL>>
            \/ /\ exit_cause \in {"runtime_error", "input_error"}
               /\ IsPrefix(<<NL, NL, ERROR_PREFIX>>, printed)
               /\ SubSeq(printed, 4, Len(printed))
                     \in ErrorDescriptions \cup {<<EOF_DESCRIPTION>>})
    /\ [](pc /= "done" => exit_cause = "none")
    /\ [](FAREWELL /= INTERRUPT_FAREWELL)
    \* a sentinel line never starts a run, and ending by it changes nothing
    /\ [][/\ (op' \in {"exit", "add_message"} /\ pc = "input" /\ Sentinel(user_input'))
             => (pc' = "done" /\ exit_cause' = "sentinel")
          /\ exit_cause' = "sentinel"
             => (context' = context /\ runs' = runs /\ messages_log' = messages_log)
          /\ pc' = "running" => ~Sentinel(user_input')]_vars
    \* once ended, no step is taken
    /\ [][pc /= "done"]_vars

C7_Witness ==
    /\ pc = "done"
    /\ exit_cause = "sentinel"
    /\ user_input = <<"Q","u","I","t">>
    /\ turns = 1

(***************************************************************************)
(* C10: every operation changes at most its own field: summarize_ideas,    *)
(* suggest_brainstorming_technique and dynamic_instructions change nothing *)
(* of the context; save_idea appends one element to the ideas and leaves   *)
(* history and topic; set_brainstorming_topic changes only the topic;      *)
(* add_message appends one entry to the history and leaves topic and ideas.*)
(***************************************************************************)
C10_Frame ==
    [][/\ op' \in {"summarize_ideas", "suggest_brainstorming_technique",
                   "dynamic_instructions"}
            => context' = context
       /\ op' = "save_idea"
            => /\ history' = history
               /\ context'.topic = context.topic
               /\ Len(ideas') = Len(ideas) + 1
               /\ SubSeq(ideas', 1, Len(ideas)) = ideas
               /\ ideas'[Len(ideas')] = ideas_log'[Len(ideas_log')]
       /\ op' = "set_brainstorming_topic"
            => /\ history' = history
               /\ ideas' = ideas
               /\ context'.topic = topic_arg'
       /\ op' = "add_message"
            => /\ context'.topic = context.topic
               /\ ideas' = ideas
               /\ Len(history') = Len(history) + 1
               /\ SubSeq(history', 1, Len(history)) = history]_vars

C10_Witness ==
    /\ op = "save_idea"
    /\ history /= <<>>
    /\ context.topic = Some(<<"a">>)
    /\ Len(ideas) = 2

C4_TechniqueFallback ==
    /\ \A j, k \in 1..5 :
          j /= k => suggest_brainstorming_technique(context, j)
                        /= suggest_brainstorming_technique(context, k)
    /\ \A k \in 1..5 :
          LET r == suggest_brainstorming_technique(context, k)
          IN  r[Len(r)] = techniques[k]
    /\ \A k \in StuckLevels \ (1..5) :
          suggest_brainstorming_technique(context, k)
              = suggest_brainstorming_technique(context, 3)
    /\ op = "suggest_brainstorming_technique" =>
          /\ ret = suggest_brainstorming_technique(context, stuck_level)
          /\ stuck_level \notin 1..5 => ret[Len(ret)] = techniques[3]
          /\ stuck_level \in 1..5 => ret[Len(ret)] = techniques[stuck_level]

C4_Witness ==
    /\ op = "suggest_brainstorming_technique"
    /\ stuck_level = 1000000
    /\ context.topic = Some(<<"b">>)

(***************************************************************************)
(* C1 as claimed: when Runner.run raises during a turn, the context is     *)
(* left exactly as it was when that turn's input was read.                 *)
(***************************************************************************)
C1_ContextAsAtTurnStart ==
    exit_cause = "runtime_error" => context = turn_start

(***************************************************************************)
(* C1 as amended: when Runner.run raises during a turn, the session ends   *)
(* and the context is left as it was at the moment of the failure: the     *)
(* history is the history at the start of the turn followed by the failed  *)
(* turn's user entry, with no assistant entry for that turn, and every     *)
(* idea saved and every topic set by a tool during the failed turn is      *)
(* kept.                                                                   *)
(***************************************************************************)
C1_ContextAsAtFailure ==
    /\ [](exit_cause = "runtime_error" =>
            /\ pc = "done"
            /\ history = Append(turn_start.conversation_history,
                                [role |-> "user", content |-> user_input])
            /\ ideas = ideas_log
            /\ IsPrefix(turn_start.ideas_discussed, ideas)
            /\ context.topic = topic_arg)
    /\ [][exit_cause' = "runtime_error" => context' = context]_vars

C1_Witness ==
    /\ exit_cause = "runtime_error"
    /\ turns = 1
    /\ ideas /= turn_start.ideas_discussed
    /\ context.topic /= turn_start.topic

(***************************************************************************)
(* C2 as claimed: after any set_brainstorming_topic calls, the empty       *)
(* string included, topic is the argument of the last call and             *)
(* dynamic_instructions shows the current-topic block with exactly that    *)
(* value.                                                                  *)
(***************************************************************************)
\* the topic shown by the current-topic block of a text, None without a block
topic_shown(text) ==
    IF \A i \in 1..Len(text) : text[i] /= TOPIC_HEADER
    THEN None
    ELSE LET i == CHOOSE j \in 1..Len(text) : text[j] = TOPIC_HEADER
             rest == SubSeq(text, i + 1, Len(text))
         IN  Some(split_lines(rest)[1])

C2_LatestTopicShown ==
    topic_arg /= None =>
        /\ context.topic = topic_arg
        /\ topic_shown(dynamic_instructions(context)) = topic_arg

(***************************************************************************)
(* C8 as claimed: dynamic_instructions starts with the static base block,  *)
(* depends on topic and ideas only, has the current-topic block exactly    *)
(* when a topic is set, and has the ideas block exactly when ideas is      *)
(* non-empty, listing exactly the recorded ideas in insertion order.       *)
(***************************************************************************)
\* the lines that follow the ideas header of a text, None without a header
ideas_shown(text) ==
    IF \A i \in 1..Len(text) : text[i] /= IDEAS_HEADER
    THEN None
    ELSE LET i == CHOOSE j \in 1..Len(text) : text[j] = IDEAS_HEADER
         IN  Some(Tail(split_lines(SubSeq(text, i + 1, Len(text)))))

C8_InstructionsComposition ==
    LET text == dynamic_instructions(context)
    IN  /\ text[1] = BASE_INSTRUCTIONS
        /\ text = dynamic_instructions(
                      [context EXCEPT !.conversation_history = <<>>])
        /\ (topic_shown(text) /= None) <=> (topic_arg /= None)
        /\ (ideas_shown(text) /= None) <=> (ideas_log /= <<>>)
        /\ ideas_log /= <<>> =>
              ideas_shown(text) =
                  Some([i \in 1..Len(ideas_log) |-> <<BULLET>> \o ideas_log[i]])
        /\ op = "dynamic_instructions" => ret = text

(***************************************************************************)
(* C9 as claimed: suggest_brainstorming_technique names the current topic  *)
(* whenever a topic has been set, the empty string included, and uses the  *)
(* placeholder phrase only when no topic has been set.                     *)
(***************************************************************************)
\* the text between the quotes of a suggestion
topic_named(suggestion) ==
    SubSeq(suggestion, 2, Len(suggestion) - 2)

C9_SuggestionNamesTopic ==
    \A k \in StuckLevels :
        LET r == suggest_brainstorming_technique(context, k)
        IN  /\ r[1] = FOR_YOUR_TOPIC
            /\ r[Len(r) - 1] = YOU_MIGHT_TRY
            /\ topic_arg /= None => topic_named(r) = topic_arg[1]
            /\ topic_arg = None => topic_named(r) = <<DEFAULT_TOPIC_PHRASE>>

====
